---- MODULE Spec2Model ----
(***************************************************************************)
(* Dungeon generation (map.rs, Map::load), the turn scheduler (main.rs,    *)
(* State::tick / run_systems) and the monster reaction system              *)
(* (monster_ai_system.rs) of rustrg.                                       *)
(*                                                                         *)
(* Map.tiles is represented by the set of indices whose tile is Floor;     *)
(* every other index of 0..width*height-1 is Wall.  revealed_tiles and     *)
(* visible_tiles are represented the same way (the set of true indices).   *)
(***************************************************************************)
EXTENDS Integers, Sequences, FiniteSets, TLC

VARIABLES
    cfg,        \* the parameters load() runs with (MAPWIDTH, MAPHEIGHT, MAX_ROOMS, MIN_SIZE, MAX_SIZE)
    map,        \* the Map under construction / the Map resource
    attempt,    \* the loop counter of `for _ in 0..MAX_ROOMS`
    new_room,   \* the candidate of the latest iteration (NoRoom before the first)
    pc,         \* position of main: "load", "loaded", "loop", "panic"
    runstate,   \* State.runstate
    ecs,        \* the component storages and the player Point resource
    events,     \* reaction events emitted by the latest MonsterAI pass
    last,       \* what the latest tick did (observation of the tick's body)
    count       \* ticks, system passes, player_input reads, turn commands so far

vars == <<cfg, map, attempt, new_room, pc, runstate, ecs, events, last, count>>

(* ---------------------------- parameters ------------------------------- *)

MAPWIDTH == 80
MAPHEIGHT == 50
MAX_ROOMS == 30
MIN_SIZE == 6
MAX_SIZE == 10
VIEW_RANGE == 8

\* scaled-down parameters of the exhaustive generator model
GridW == 9
GridH == 7
SmallMin == 2
SmallMax == 4
SmallRooms == 3
\* number of loop iterations explored with the reference parameters
RefAttempts == 2
\* number of ticks explored
MaxTicks == 6

RefCfg ==
    [width |-> MAPWIDTH, height |-> MAPHEIGHT, max_rooms |-> MAX_ROOMS,
     min_size |-> MIN_SIZE, max_size |-> MAX_SIZE, cap |-> RefAttempts, full |-> FALSE]

SmallCfg ==
    [width |-> GridW, height |-> GridH, max_rooms |-> SmallRooms,
     min_size |-> SmallMin, max_size |-> SmallMax, cap |-> SmallRooms, full |-> TRUE]

(* ------------------------------ helpers -------------------------------- *)

Min2(a, b) == IF a < b THEN a ELSE b
Max2(a, b) == IF a > b THEN a ELSE b

\* rng.range(lo, hi): lo..hi-1.  With the reference parameters only the two
\* extreme outcomes are explored.
RngRange(c, lo, hi) == IF c.full THEN lo .. (hi - 1) ELSE {lo, hi - 1}

\* rng.roll_dice(1, n): 1..n.  With the reference parameters the lowest, the
\* middle and the highest outcome are explored.
RollDice(c, n) == IF c.full THEN 1 .. n ELSE {1, (n + 1) \div 2, n}

NoRoom == [x1 |-> 0, y1 |-> 0, x2 |-> 0, y2 |-> 0, none |-> TRUE]

(* ------------------------------- rect ---------------------------------- *)

\* Rect::new(x, y, w, h)
RectNew(x, y, w, h) == [x1 |-> x, y1 |-> y, x2 |-> x + w, y2 |-> y + h]

\* the rectangle padded by one tile on every side
Padded(r) == [x1 |-> r.x1 - 1, y1 |-> r.y1 - 1, x2 |-> r.x2 + 1, y2 |-> r.y2 + 1]

\* closed rectangles overlap on both axes
Overlap(a, b) == a.x1 <= b.x2 /\ a.x2 >= b.x1 /\ a.y1 <= b.y2 /\ a.y2 >= b.y1

\* Rect::intersect
intersect(a, b) == Overlap(Padded(a), Padded(b))

\* Rect::center
center(r) == <<(r.x1 + r.x2) \div 2, (r.y1 + r.y2) \div 2>>

(* -------------------------------- map ---------------------------------- *)

\* Map::xy_idx
xy_idx(m, x, y) == (y * m.width) + x

\* const MAPCOUNT = MAPHEIGHT * MAPWIDTH, the dimensions load() stores in the Map
MAPCOUNT(m) == m.height * m.width

\* mutant: exclusive ranges, the last column and row are not carved
apply_room_to_map_exclusive(m, room) ==
    [m EXCEPT !.tiles = @ \cup
        {(y * m.width) + x : x \in (room.x1 + 1) .. (room.x2 - 1),
                             y \in (room.y1 + 1) .. (room.y2 - 1)}]

\* Map::apply_room_to_map
apply_room_to_map(m, room) ==
    [m EXCEPT !.tiles = @ \cup
        {xy_idx(m, x, y) : x \in (room.x1 + 1) .. room.x2, y \in (room.y1 + 1) .. room.y2}]

\* Map::apply_horizontal_tunnel
apply_horizontal_tunnel(m, x1, x2, y) ==
    [m EXCEPT !.tiles = @ \cup
        {idx \in {xy_idx(m, x, y) : x \in Min2(x1, x2) .. Max2(x1, x2)} :
            idx > 0 /\ idx < m.width * m.height}]

\* Map::apply_vertical_tunnel
apply_vertical_tunnel(m, y1, y2, x) ==
    [m EXCEPT !.tiles = @ \cup
        {idx \in {xy_idx(m, x, y) : y \in Min2(y1, y2) .. Max2(y1, y2)} :
            idx > 0 /\ idx < MAPCOUNT(m)}]

\* mutant: `ok` is never cleared, every candidate is accepted
RoomOk_always(rooms, room) == TRUE

\* mutant: the test is inverted, a candidate is accepted when it intersects
RoomOk_inverted(rooms, room) == \E i \in 1 .. Len(rooms) : intersect(room, rooms[i])

\* the `ok` flag of load(): no accepted room intersects the candidate
RoomOk(rooms, room) == \A i \in 1 .. Len(rooms) : ~intersect(room, rooms[i])

\* the corridor branch of load(), `if rng.range(0,2) == 1 {..} else {..}`
Connect(m, prev, new, coin) ==
    LET new_x == new[1]
        new_y == new[2]
        prev_x == prev[1]
        prev_y == prev[2]
    IN  IF coin = 1
        THEN apply_vertical_tunnel(apply_horizontal_tunnel(m, prev_x, new_x, prev_y),
                                   prev_y, new_y, prev_x)
        ELSE apply_horizontal_tunnel(apply_vertical_tunnel(m, prev_y, new_y, prev_x),
                                     prev_x, new_x, new_y)

\* the `if ok {..}` block of load()
AcceptedMap(m, room, coin) ==
    LET carved == apply_room_to_map(m, room)
        joined == IF m.rooms # <<>>
                  THEN Connect(carved, center(m.rooms[Len(m.rooms)]), center(room), coin)
                  ELSE carved
    IN  [joined EXCEPT !.rooms = Append(@, room)]

\* the Map literal at the head of load()
EmptyMap(c) ==
    [tiles |-> {}, rooms |-> <<>>, width |-> c.width, height |-> c.height,
     revealed_tiles |-> {}, visible_tiles |-> {}]

\* mutant: the die is rolled over width - w and height - h
Candidates_wide(c, m) ==
    {RectNew(x - 1, y - 1, w, h) :
        <<w, h, x, y>> \in
            UNION {UNION {{<<w, h, x, y>> : x \in RollDice(c, m.width - w),
                                            y \in RollDice(c, m.height - h)} :
                          h \in RngRange(c, c.min_size, c.max_size)} :
                   w \in RngRange(c, c.min_size, c.max_size)}}

\* the candidates one iteration of load() can sample
Candidates(c, m) ==
    {RectNew(x - 1, y - 1, w, h) :
        <<w, h, x, y>> \in
            UNION {UNION {{<<w, h, x, y>> : x \in RollDice(c, m.width - w - 1),
                                            y \in RollDice(c, m.height - h - 1)} :
                          h \in RngRange(c, c.min_size, c.max_size)} :
                   w \in RngRange(c, c.min_size, c.max_size)}}

(* ------------------------------ world ---------------------------------- *)

\* World::new() with the component storages registered and nothing in them;
\* entity ids are the indices of the storages, in creation order
EmptyWorld ==
    [position |-> <<>>, viewshed |-> <<>>, player |-> {}, monster |-> {},
     player_pos |-> <<0, 0>>]

NoTick == [began |-> "none", key |-> "none", ran |-> <<>>, pos |-> <<0, 0>>, target |-> "none"]
ZeroCount == [ticks |-> 0, passes |-> 0, inputs |-> 0, turns |-> 0]

\* Viewshed{ visible_tiles: Vec::new(), range: 8, dirty: true }
NewViewshed == [visible_tiles |-> {}, range |-> VIEW_RANGE, dirty |-> TRUE]

\* main(): the player at rooms[0].center(), one monster at the center of
\* every later room, then the Point resource
CreateEntities(m) ==
    [position |-> [i \in 1 .. Len(m.rooms) |-> center(m.rooms[i])],
     viewshed |-> [i \in 1 .. Len(m.rooms) |-> NewViewshed],
     player |-> {1},
     monster |-> 2 .. Len(m.rooms),
     player_pos |-> center(m.rooms[1])]

InGrid(m, p) == p[1] >= 0 /\ p[1] < m.width /\ p[2] >= 0 /\ p[2] < m.height

\* TileType at a point: Floor or Wall
TileAt(m, p) == IF xy_idx(m, p[1], p[2]) \in m.tiles THEN "Floor" ELSE "Wall"

\* BaseMap::is_opaque
is_opaque(m, idx) == idx \notin m.tiles

(* --------------------------- visibility -------------------------------- *)

Abs(a) == IF a < 0 THEN -a ELSE a
Chebyshev(p, q) == Max2(Abs(p[1] - q[1]), Abs(p[2] - q[2]))

\* the tiles strictly between origin and t on the straight line joining them
Between(o, t) ==
    LET n == Chebyshev(o, t)
    IN  {<<o[1] + ((2 * i * (t[1] - o[1]) + n) \div (2 * n)),
           o[2] + ((2 * i * (t[2] - o[2]) + n) \div (2 * n))>> : i \in 1 .. (n - 1)}

\* recompute(grid, origin, range): the tiles within range with no opaque tile
\* strictly between them and the origin; the origin itself is always visible
field_of_view(m, o, range) ==
    {t \in (0 .. (m.width - 1)) \X (0 .. (m.height - 1)) :
        \/ t = o
        \/ /\ Chebyshev(o, t) <= range
           /\ \A b \in Between(o, t) : ~is_opaque(m, xy_idx(m, b[1], b[2]))}

\* VisibilitySystem::run over a state s = [runstate, ecs, map, events, ran]
VisibilitySystem_run(s) ==
    LET e == s.ecs
        seen(i) == field_of_view(s.map, e.position[i], e.viewshed[i].range)
        pseen == UNION {{xy_idx(s.map, t[1], t[2]) : t \in seen(i)} :
                        i \in {j \in e.player : e.viewshed[j].dirty}}
        pdirty == \E j \in e.player : e.viewshed[j].dirty
    IN  [s EXCEPT
            !.ecs.viewshed = [i \in DOMAIN e.viewshed |->
                IF e.viewshed[i].dirty
                THEN [e.viewshed[i] EXCEPT !.visible_tiles = seen(i), !.dirty = FALSE]
                ELSE e.viewshed[i]],
            !.map.visible_tiles = IF pdirty THEN pseen ELSE @,
            !.map.revealed_tiles = @ \cup pseen,
            !.ran = Append(@, "VisibilitySystem")]

(* -------------------------- monster reaction --------------------------- *)

\* MonsterAI::run: the body of the `if` is a comment (the console::log call is
\* commented out), so a monster that sees the player emits nothing
MonsterAI_run(s) ==
    LET e == s.ecs
    IN  [s EXCEPT
            !.events = [i \in e.monster \cap DOMAIN e.viewshed |->
                IF e.player_pos \in e.viewshed[i].visible_tiles THEN 0 ELSE 0],
            !.ran = Append(@, "MonsterAI")]

(* ----------------------------- player input ----------------------------- *)

Keys == {"None", "Left", "Right", "Up", "Down", "Other"}
MoveKeys == {"Left", "Right", "Up", "Down"}

Delta(key) ==
    CASE key = "Left" -> <<-1, 0>>
      [] key = "Right" -> <<1, 0>>
      [] key = "Up" -> <<0, -1>>
      [] key = "Down" -> <<0, 1>>
      [] OTHER -> <<0, 0>>

PlayerEntity(e) == CHOOSE i \in e.player : TRUE

\* the tile a move command of the player targets
Target(e, key) ==
    LET p == e.position[PlayerEntity(e)]
        d == Delta(key)
    IN  <<p[1] + d[1], p[2] + d[2]>>

\* a move is applied only onto a Floor tile of the grid
Walkable(m, p) == InGrid(m, p) /\ TileAt(m, p) = "Floor"

\* player_input: no actionable input and a move onto a Wall leave everything
\* as it is and return Paused; a move onto a Floor tile updates the Position,
\* marks the Viewshed dirty and returns Running
player_input(s, key) ==
    IF key \in MoveKeys /\ Walkable(s.map, Target(s.ecs, key))
    THEN [s EXCEPT
            !.ecs.position[PlayerEntity(s.ecs)] = Target(s.ecs, key),
            !.ecs.viewshed[PlayerEntity(s.ecs)].dirty = TRUE,
            !.ecs.player_pos = Target(s.ecs, key),
            !.runstate = "Running"]
    ELSE [s EXCEPT !.runstate = "Paused"]

(* ------------------------------ scheduler ------------------------------- *)

\* mutant: the two systems run in the other order
run_systems_swapped(s) == VisibilitySystem_run(MonsterAI_run(s))

\* State::run_systems
run_systems(s) == MonsterAI_run(VisibilitySystem_run(s))

\* mutant: the Running branch does not return to Paused
tick_stays_running(s, key) ==
    IF s.runstate = "Running"
    THEN run_systems(s)
    ELSE player_input(s, key)

\* mutant: the Paused branch starts a turn on any key, whatever player_input returns
tick_any_key_runs(s, key) ==
    IF s.runstate = "Running"
    THEN [run_systems(s) EXCEPT !.runstate = "Paused"]
    ELSE [player_input(s, key) EXCEPT !.runstate = IF key = "None" THEN "Paused" ELSE "Running"]

\* State::tick, up to the drawing
tick(s, key) ==
    IF s.runstate = "Running"
    THEN [run_systems(s) EXCEPT !.runstate = "Paused"]
    ELSE player_input(s, key)

(* ---------------------------- generation ------------------------------- *)

\* mutant: the scheduler starts in Paused
InitRunState_paused == "Paused"

\* State{ ecs: World::new(), runstate: RunState::Running }
InitRunState == "Running"

\* main(): State { runstate: Running } is built, then load() starts
InitWith(c) ==
    /\ cfg = c
    /\ map = EmptyMap(c)
    /\ attempt = 0
    /\ new_room = NoRoom
    /\ pc = "load"
    /\ runstate = InitRunState
    /\ ecs = EmptyWorld
    /\ events = <<>>
    /\ last = NoTick
    /\ count = ZeroCount

Init == InitWith(SmallCfg)
InitRef == InitWith(RefCfg)

InLoop == pc = "load" /\ attempt < cfg.max_rooms /\ attempt < cfg.cap

\* one iteration of the loop whose candidate is accepted
AcceptRoom ==
    /\ InLoop
    /\ \E room \in Candidates(cfg, map), coin \in {0, 1} :
        /\ RoomOk(map.rooms, room)
        /\ map' = AcceptedMap(map, room, coin)
        /\ new_room' = room
    /\ attempt' = attempt + 1
    /\ UNCHANGED <<cfg, pc, runstate, ecs, events, last, count>>

\* one iteration of the loop whose candidate is rejected
RejectRoom ==
    /\ InLoop
    /\ \E room \in Candidates(cfg, map) :
        /\ ~RoomOk(map.rooms, room)
        /\ new_room' = room
    /\ attempt' = attempt + 1
    /\ UNCHANGED <<cfg, map, pc, runstate, ecs, events, last, count>>

\* the loop is over, load() returns the map
LoadReturn ==
    /\ pc = "load"
    /\ ~InLoop
    /\ pc' = "loaded"
    /\ UNCHANGED <<cfg, map, attempt, new_room, runstate, ecs, events, last, count>>

\* main() after load(): rooms[0] is read (a panic when there is no room) and
\* the entities are created; main_loop starts
MainSetup ==
    /\ pc = "loaded"
    /\ IF map.rooms = <<>>
       THEN pc' = "panic" /\ ecs' = ecs
       ELSE pc' = "loop" /\ ecs' = CreateEntities(map)
    /\ UNCHANGED <<cfg, map, attempt, new_room, runstate, events, last, count>>

NextGen == AcceptRoom \/ RejectRoom \/ LoadReturn \/ MainSetup

\* generation with the scaled-down parameters, every random outcome
Spec == Init /\ [][NextGen]_vars

\* generation with the reference parameters
SpecRef == InitRef /\ [][NextGen]_vars

(* ------------------------------ main loop ------------------------------ *)

\* the maps the main loop is explored on: the smallest room in the top-left
\* corner alone, or followed by any second room load() accepts
SchedMaps ==
    LET first == RectNew(0, 0, SmallMin, SmallMin)
        m0 == EmptyMap(SmallCfg)
        m1 == AcceptedMap(m0, first, 0)
    IN  IF first \in Candidates(SmallCfg, m0)
        THEN {m1} \cup {AcceptedMap(m1, r, coin) :
                            r \in {c \in Candidates(SmallCfg, m1) : RoomOk(m1.rooms, c)},
                            coin \in {0, 1}}
        ELSE {}

InitSched ==
    /\ cfg = SmallCfg
    /\ map \in SchedMaps
    /\ attempt = SmallRooms
    /\ new_room = map.rooms[Len(map.rooms)]
    /\ pc = "loaded"
    /\ runstate = InitRunState
    /\ ecs = EmptyWorld
    /\ events = <<>>
    /\ last = NoTick
    /\ count = ZeroCount

\* one call of State::tick by main_loop with the key the context holds
Tick(key) ==
    /\ pc = "loop"
    /\ count.ticks < MaxTicks
    /\ LET s == [runstate |-> runstate, ecs |-> ecs, map |-> map, events |-> events, ran |-> <<>>]
           t == tick(s, key)
           moved == key \in MoveKeys
       IN  /\ runstate' = t.runstate
           /\ ecs' = t.ecs
           /\ map' = t.map
           /\ events' = t.events
           /\ last' = [began |-> runstate, key |-> key, ran |-> t.ran,
                       pos |-> ecs.position[PlayerEntity(ecs)],
                       target |-> IF moved /\ InGrid(map, Target(ecs, key))
                                  THEN TileAt(map, Target(ecs, key))
                                  ELSE IF moved THEN "Wall" ELSE "none"]
           /\ count' = [ticks |-> count.ticks + 1,
                        passes |-> count.passes + (IF "VisibilitySystem" \in {t.ran[i] : i \in DOMAIN t.ran} THEN 1 ELSE 0),
                        inputs |-> count.inputs + (IF runstate = "Paused" THEN 1 ELSE 0),
                        turns |-> count.turns + (IF runstate = "Paused" /\ t.runstate = "Running" THEN 1 ELSE 0)]
    /\ UNCHANGED <<cfg, attempt, new_room, pc>>

TickRunning == runstate = "Running" /\ \E key \in Keys : Tick(key)
TickPaused == runstate = "Paused" /\ \E key \in Keys : Tick(key)

NextSched == MainSetup \/ TickRunning \/ TickPaused

SpecSched == InitSched /\ [][NextSched]_vars

(* ------------------------------ properties ----------------------------- *)

Systems == <<"VisibilitySystem", "MonsterAI">>
Player == PlayerEntity(ecs)

\* C1: the scheduler starts in Running; the first tick runs one full system
\* pass and ends in Paused without reading input; player_input is never read
\* before a system pass has completed.
C1_FirstPassBeforeInput ==
    /\ count.ticks = 0 => runstate = "Running"
    /\ count.ticks = 1 =>
            /\ last.began = "Running" /\ last.ran = Systems
            /\ runstate = "Paused" /\ count.passes = 1 /\ count.inputs = 0
    /\ count.inputs > 0 => count.passes >= 1

C1_Witness == count.inputs > 0 /\ count.passes = 1

\* C2: a tick that begins in Running runs the Visibility pass, then the
\* Monster Reaction pass, each exactly once, the first complete (no Viewshed
\* left dirty) before the second, and ends in Paused.
C2_RunningTick ==
    last.began = "Running" =>
        /\ last.ran = Systems
        /\ \A i \in DOMAIN ecs.viewshed : ~ecs.viewshed[i].dirty
        /\ runstate = "Paused"

C2_Witness == last.began = "Running" /\ count.turns >= 1 /\ ecs.monster # {}

\* C3: a tick that begins in Paused runs no system; the system passes done
\* are the initial one plus one per turn-consuming command whose Running tick
\* has occurred; a Paused tick without actionable input stays Paused.
C3_TurnAccounting ==
    /\ last.began = "Paused" => last.ran = <<>>
    /\ count.passes + (IF runstate = "Running" THEN 1 ELSE 0) = 1 + count.turns
    /\ (last.began = "Paused" /\ last.key \in {"None", "Other"}) => runstate = "Paused"

C3_Witness == count.turns >= 2 /\ count.passes >= 3 /\ last.key = "None" /\ last.began = "Paused"

\* C4: no two distinct accepted rooms have 1-tile-padded closed rectangles
\* that overlap on both axes, after every iteration of the placement loop.
C4_NoPaddedOverlap ==
    \A i, j \in 1 .. Len(map.rooms) :
        i # j => ~Overlap(Padded(map.rooms[i]), Padded(map.rooms[j]))

\* two rooms accepted, and the latest candidate rejected
C4_Witness ==
    /\ Len(map.rooms) = 2
    /\ new_room # NoRoom
    /\ \A i \in 1 .. Len(map.rooms) : map.rooms[i] # new_room

Interior(r) == ((r.x1 + 1) .. r.x2) \X ((r.y1 + 1) .. r.y2)

\* C5: every tile of the interior x1+1..x2, y1+1..y2 of every accepted room
\* is Floor, after every later room and corridor carve and at the end of
\* generation.
C5_InteriorIsFloor ==
    \A i \in 1 .. Len(map.rooms) :
        \A p \in Interior(map.rooms[i]) : InGrid(map, p) /\ TileAt(map, p) = "Floor"

C5_Witness == pc = "loaded" /\ Len(map.rooms) = 2 /\ attempt = SmallRooms

Neighbours(p) ==
    {<<p[1] + 1, p[2]>>, <<p[1] - 1, p[2]>>, <<p[1], p[2] + 1>>, <<p[1], p[2] - 1>>}

RECURSIVE Flood(_, _, _)
Flood(m, frontier, seen) ==
    IF frontier = {}
    THEN seen
    ELSE LET next == {q \in UNION {Neighbours(p) : p \in frontier} :
                        InGrid(m, q) /\ TileAt(m, q) = "Floor"} \ seen
         IN  Flood(m, next, seen \cup next)

\* a path of orthogonally adjacent Floor tiles joins a and b
Connected(m, a, b) == TileAt(m, a) = "Floor" /\ b \in Flood(m, {a}, {a})

\* C6: for every accepted room i >= 1 a path of orthogonally adjacent Floor
\* tiles joins the center of room i and the center of room i-1, whichever
\* carving order was drawn.
C6_CentersConnected ==
    \A i \in 2 .. Len(map.rooms) :
        Connected(map, center(map.rooms[i]), center(map.rooms[i - 1]))

\* C7: with the reference parameters generation accepts at least one room,
\* reading rooms[0] at startup never fails, and the tile at the center of
\* rooms[0], where the player is placed, is Floor.
C7_FirstRoomAndPlayerOnFloor ==
    /\ pc # "panic"
    /\ pc \in {"loaded", "loop"} => Len(map.rooms) >= 1
    /\ pc = "loop" =>
            /\ ecs.position[Player] = center(map.rooms[1])
            /\ InGrid(map, ecs.position[Player])
            /\ TileAt(map, ecs.position[Player]) = "Floor"

C7_Witness == pc = "loop" /\ cfg = RefCfg /\ Len(map.rooms) = 2

\* C8: after a Monster Reaction pass every monster whose visible-tile set
\* contains the player's position has emitted exactly one reaction event and
\* every other monster none.
C8_OneEventPerSeeingMonster ==
    last.began = "Running" =>
        \A i \in ecs.monster :
            events[i] = IF ecs.player_pos \in ecs.viewshed[i].visible_tiles THEN 1 ELSE 0

\* C9: a move command onto a Wall tile issued while Paused leaves the player's
\* Position unchanged, leaves the scheduler Paused and runs no system.
C9_MoveIntoWall ==
    (last.began = "Paused" /\ last.key \in MoveKeys /\ last.target = "Wall") =>
        /\ ecs.position[Player] = last.pos
        /\ ecs.player_pos = last.pos
        /\ runstate = "Paused"
        /\ last.ran = <<>>

C9_Witness ==
    /\ last.began = "Paused" /\ last.key \in MoveKeys /\ last.target = "Wall"
    /\ count.turns >= 1

\* C10 as stated: the rectangle of every sampled candidate, padded by one
\* tile on all sides, stays within the grid.
C10_PaddedInGrid ==
    new_room # NoRoom =>
        /\ new_room.x1 - 1 >= 0
        /\ new_room.y1 - 1 >= 0
        /\ new_room.x2 + 1 <= map.width - 1
        /\ new_room.y2 + 1 <= map.height - 1

\* C10 amended: the rectangle of every sampled candidate lies within the
\* grid with a one-tile margin on the right and at the bottom only; x1 and
\* y1 may be 0.
C10_InGridWithFarMargin ==
    new_room # NoRoom =>
        /\ new_room.x1 >= 0
        /\ new_room.y1 >= 0
        /\ new_room.x2 + 1 <= map.width - 1
        /\ new_room.y2 + 1 <= map.height - 1

C10_Witness ==
    /\ new_room # NoRoom
    /\ new_room.x1 = 0
    /\ new_room.y2 + 1 = map.height - 1

====
